---- MODULE Spec2Model ----
(***************************************************************************)
(* A model of PythonTask (panda/src/event/pythonTask.cxx): one task, the   *)
(* Python objects it refers to, and the calls it makes on them.            *)
(*                                                                         *)
(* Python objects are strings ("None", "f", "O1", ...); a bound method is  *)
(* the string owner.method.  Python values that are inspected by type are  *)
(* tagged tuples: <<"int", hi, lo>> is the int whose C long value is       *)
(* hi * 2^32 + lo, <<"str", s>> a string, <<"none">> None.                 *)
(***************************************************************************)
EXTENDS Integers, Sequences, FiniteSets, TLC

VARIABLES
    _state,         \* AsyncTask::_state
    _task_id,       \* AsyncTask::_task_id
    _name,          \* Namable::_name
    _delay,         \* AsyncTask::_delay, NoDelay while has_delay() is false
    _function,      \* PythonTask::_function
    _args,          \* PythonTask::_args, a tuple
    _append_task,   \* PythonTask::_append_task
    _upon_death,    \* PythonTask::_upon_death
    _owner,         \* PythonTask::_owner
    _dict,          \* PythonTask::_dict
    refs,           \* the references the task holds, by object
    op,             \* the last operation called on the task, with its arguments
    ret,            \* what it returned: [rc |-> code, err |-> error left set]
    got,            \* the object the last __getattr__ returned
    calls,          \* the Python callables it invoked, in order
    errlog,         \* what it wrote to task_cat.error()
    callArgs        \* the argument tuple the last do_task passed to _function

vars == <<_state, _task_id, _name, _delay, _function, _args,
          _append_task, _upon_death, _owner, _dict, refs,
          op, ret, got, calls, errlog, callArgs>>

----------------------------------------------------------------------------
(* Bounds of the model *)

MaxArgs == 2        \* longest argument sequence handed to set_args
MaxTaskId == 2      \* identifiers a task may have been given at creation

----------------------------------------------------------------------------
(* The Python objects *)

Py_None == "None"
NULL == "NULL"
Self == "task"      \* DTool_CreatePyInstanceTyped(this, ...)

Functions == {"f", "g"}             \* callables handed to set_function
DeathFunctions == {"cb", "cbx"}     \* callables handed to set_upon_death
NotCallable == "n5"                 \* an object that is not callable
Owners == {"O1", "O2", "O3", "O4"}  \* O3 defines neither hook method
OwnerMethods == {"_addTask", "_clearTask"}

Attrs(o) == IF o \in {"O1", "O2", "O4"} THEN OwnerMethods ELSE {}

BoundMethod(o, method_name) == o \o "." \o method_name

\* The callables that raise when they are invoked: cbx and O4's methods.
Raising == {"cbx"} \cup {BoundMethod("O4", m) : m \in OwnerMethods}

\* The objects _args and _dict refer to.
TupleObject == "tuple"
DictObject == "dict"

RefObjects ==
    Functions \cup DeathFunctions \cup Owners
              \cup {NotCallable, Py_None, TupleObject, DictObject}

Py_INCREF(r, o) == [r EXCEPT ![o] = @ + 1]

Py_DECREF(r, o) == [r EXCEPT ![o] = @ - 1]

PyObject_GetAttrString(o, method_name) ==
    IF method_name \in Attrs(o) THEN BoundMethod(o, method_name) ELSE NULL

PyCallable_Check(o) ==
    o \in Functions \cup DeathFunctions
          \cup {BoundMethod(w, m) : w \in Owners, m \in OwnerMethods}

S_inactive == "S_inactive"
S_active == "S_active"

DS_done == 0
DS_cont == 1
DS_again == 2
DS_abort == 3

NoDelay == <<"none">>
NoError == "none"
NoRet == [rc |-> 0, err |-> NoError]

----------------------------------------------------------------------------
(* call_function, call_owner_method, upon_birth, upon_death: each gives    *)
(* the callables it invoked, the error lines it wrote to task_cat and the  *)
(* Python errors that were set, all in order.                              *)

Nothing == [called |-> <<>>, logged |-> <<>>, raised |-> <<>>]

Then(a, b) ==
    [called |-> a.called \o b.called,
     logged |-> a.logged \o b.logged,
     raised |-> a.raised \o b.raised]

\* The error indicator once the errors of raised were set: an error stays
\* set until the next one is, as nothing here calls PyErr_Clear.
PyErr_Occurred(raised) ==
    IF raised = <<>> THEN NoError ELSE raised[Len(raised)]

\* PyObject_CallObject invokes a callable, which may raise; on any other
\* object it raises without invoking anything.
PyObject_CallObject(function) ==
    IF PyCallable_Check(function)
    THEN [called |-> <<function>>, logged |-> <<>>,
          raised |-> IF function \in Raising THEN <<"Exception">> ELSE <<>>]
    ELSE [called |-> <<>>, logged |-> <<>>, raised |-> <<"TypeError">>]

call_function(function) ==
    IF function # Py_None THEN PyObject_CallObject(function) ELSE Nothing

call_owner_method(owner, method_name) ==
    IF owner # Py_None
    THEN LET func == PyObject_GetAttrString(owner, method_name)
         IN  IF func = NULL
             THEN [called |-> <<>>,
                   logged |-> <<BoundMethod(owner, method_name)>>,
                   raised |-> <<"AttributeError">>]
             ELSE call_function(func)
    ELSE Nothing

\* upon_birth without the call of the owner's method.
upon_birth_silent(owner) == Nothing

upon_birth(owner) == call_owner_method(owner, "_addTask")

\* upon_death without the call of the owner's method.
upon_death_unannounced(owner, death_function, clean_exit) ==
    call_function(death_function)

upon_death(owner, death_function, clean_exit) ==
    Then(call_owner_method(owner, "_clearTask"), call_function(death_function))

----------------------------------------------------------------------------
(* The setters *)

set_function(function) ==
    /\ _function' = function
    /\ refs' = Py_INCREF(Py_DECREF(refs, _function), function)
    /\ ret' = [rc |-> 0,
               err |-> IF PyCallable_Check(function) THEN NoError
                       ELSE "AssertionError"]

set_upon_death(death_function) ==
    /\ _upon_death' = death_function
    /\ refs' = Py_INCREF(Py_DECREF(refs, _upon_death), death_function)
    /\ ret' = [rc |-> 0,
               err |-> IF death_function # Py_None
                          /\ ~PyCallable_Check(death_function)
                       THEN "AssertionError" ELSE NoError]

ArgItems == {"7", "8", Self}

SeqsUpTo(S, n) == UNION {[1..k -> S] : k \in 0..n}

\* What a caller may hand to set_args: None, a sequence, or another object.
ArgInputs ==
    {<<"none">>} \cup {<<"seq", s>> : s \in SeqsUpTo(ArgItems, MaxArgs)}
                 \cup {<<"obj", NotCallable>>}

PySequence_Check(args) == args[1] = "seq"

PySequence_Tuple(args) == args[2]

\* set_args keeping the tuple it had when args is not a sequence.
set_args_kept(args, append_task) ==
    LET valid == args = <<"none">> \/ PySequence_Check(args)
    IN  /\ _args' = IF args = <<"none">> THEN <<>>
                    ELSE IF PySequence_Check(args) THEN PySequence_Tuple(args)
                    ELSE _args
        /\ refs' = refs
        /\ ret' = [rc |-> 0,
                   err |-> IF valid THEN NoError ELSE "AssertionError"]
        /\ _append_task' = append_task

set_args(args, append_task) ==
    LET first == IF args = <<"none">> THEN <<"tuple", <<>> >>
                 ELSE IF PySequence_Check(args)
                      THEN <<"tuple", PySequence_Tuple(args)>>
                      ELSE <<NULL>>
    IN  /\ _args' = IF first = <<NULL>> THEN <<>> ELSE first[2]
        /\ refs' = Py_INCREF(Py_DECREF(refs, TupleObject), TupleObject)
        /\ ret' = [rc |-> 0,
                   err |-> IF first = <<NULL>> THEN "AssertionError" ELSE NoError]
        /\ _append_task' = append_task

\* get_args handing out the stored tuple whatever append_task says.
get_args_stored(args, append_task) == args

get_args(args, append_task) ==
    IF append_task
    THEN LET num_args == Len(args)
         IN  [i \in 1..(num_args + 1) |->
                 IF i <= num_args THEN args[i] ELSE Self]
    ELSE args

\* set_owner storing the new owner before it notifies the old one.
set_owner_stored_first(owner) ==
    LET died == IF owner # NULL /\ owner # Py_None /\ _state # S_inactive
                THEN upon_death(owner, _upon_death, FALSE)
                ELSE Nothing
        born == IF owner # Py_None /\ _state # S_inactive
                THEN upon_birth(owner)
                ELSE Nothing
        done == Then(died, born)
    IN  /\ _owner' = owner
        /\ refs' = Py_INCREF(Py_DECREF(refs, _owner), owner)
        /\ calls' = done.called
        /\ errlog' = done.logged
        /\ ret' = [rc |-> 0, err |-> PyErr_Occurred(done.raised)]

\* set_owner calling upon_birth whatever the state of the task.
set_owner_announcing(owner) ==
    LET died == IF _owner # NULL /\ _owner # Py_None /\ _state # S_inactive
                THEN upon_death(_owner, _upon_death, FALSE)
                ELSE Nothing
        born == IF owner # Py_None
                THEN upon_birth(owner)
                ELSE Nothing
        done == Then(died, born)
    IN  /\ _owner' = owner
        /\ refs' = Py_INCREF(Py_DECREF(refs, _owner), owner)
        /\ calls' = done.called
        /\ errlog' = done.logged
        /\ ret' = [rc |-> 0, err |-> PyErr_Occurred(done.raised)]

set_owner(owner) ==
    LET died == IF _owner # NULL /\ _owner # Py_None /\ _state # S_inactive
                THEN upon_death(_owner, _upon_death, FALSE)
                ELSE Nothing
        born == IF owner # Py_None /\ _state # S_inactive
                THEN upon_birth(owner)
                ELSE Nothing
        done == Then(died, born)
    IN  /\ _owner' = owner
        /\ refs' = Py_INCREF(Py_DECREF(refs, _owner), owner)
        /\ calls' = done.called
        /\ errlog' = done.logged
        /\ ret' = [rc |-> 0, err |-> PyErr_Occurred(done.raised)]

----------------------------------------------------------------------------
(* __setattr__, __getattr__ *)

ReservedNames ==
    {"name", "delay", "delayTime", "time", "done", "cont", "again", "id"}

AttrNames == ReservedNames \cup {"foo", "bar"}

\* The names written in the attribute runs.  done, cont and again take the
\* same branch of __setattr__ as time does.
WriteNames == {"name", "delay", "delayTime", "time", "id", "foo", "bar"}

\* The objects assigned to attributes: the ints 5 and -1 and a string.
AttrValues == {<<"int", 0, 5>>, <<"int", 0, -1>>, <<"str", "s">>}

\* PyFloat_AsDouble: the value of a number; an error is raised for a string.
PyFloat_AsDouble(v) ==
    IF v[1] = "int" THEN [err |-> NoError, val |-> <<"float", v[3]>>]
    ELSE [err |-> "TypeError", val |-> <<"float", -1>>]

\* PyString_AsString: the characters of a string, else NULL and an error.
PyString_AsString(v) ==
    IF v[1] = "str" THEN [err |-> NoError, val |-> v[2]]
    ELSE [err |-> "TypeError", val |-> NULL]

PyInt_FromLong(n) == <<"int", 0, n>>

PyString_FromString(s) == <<"str", s>>

EmptyDict == [k \in {} |-> <<NULL>>]

PyDict_SetItemString(dict, key, v) ==
    [k \in DOMAIN dict \cup {key} |-> IF k = key THEN v ELSE dict[k]]

PyDict_DelItemString(dict, key) ==
    [k \in DOMAIN dict \ {key} |-> dict[k]]

PyMapping_GetItemString(dict, key) ==
    IF key \in DOMAIN dict THEN dict[key] ELSE <<NULL>>

\* AsyncTask::set_delay and Namable::set_name store what they are given.
set_delay(delay) == _delay' = delay

set_name(name) == _name' = name

\* __setattr__ without its branch for id.
setattr_id_stored(attr_name, v) ==
    IF attr_name = "delayTime"
    THEN LET delay == PyFloat_AsDouble(v)
         IN  /\ IF delay.err = NoError THEN set_delay(delay.val)
                ELSE UNCHANGED _delay
             /\ ret' = [rc |-> 0, err |-> delay.err]
             /\ UNCHANGED <<_name, _dict>>
    ELSE IF attr_name = "name"
    THEN LET name == PyString_AsString(v)
         IN  /\ IF name.val # NULL THEN set_name(name.val)
                ELSE UNCHANGED _name
             /\ ret' = [rc |-> 0, err |-> name.err]
             /\ UNCHANGED <<_delay, _dict>>
    ELSE /\ _dict' = PyDict_SetItemString(_dict, attr_name, v)
         /\ ret' = NoRet
         /\ UNCHANGED <<_name, _delay>>

setattr(attr_name, v) ==
    IF attr_name = "delayTime"
    THEN LET delay == PyFloat_AsDouble(v)
         IN  /\ IF delay.err = NoError THEN set_delay(delay.val)
                ELSE UNCHANGED _delay
             /\ ret' = [rc |-> 0, err |-> delay.err]
             /\ UNCHANGED <<_name, _dict>>
    ELSE IF attr_name = "name"
    THEN LET name == PyString_AsString(v)
         IN  /\ IF name.val # NULL THEN set_name(name.val)
                ELSE UNCHANGED _name
             /\ ret' = [rc |-> 0, err |-> name.err]
             /\ UNCHANGED <<_delay, _dict>>
    ELSE IF attr_name = "id"
    THEN /\ ret' = [rc |-> 1, err |-> "AssertionError"]
         /\ UNCHANGED <<_name, _delay, _dict>>
    ELSE /\ _dict' = PyDict_SetItemString(_dict, attr_name, v)
         /\ ret' = NoRet
         /\ UNCHANGED <<_name, _delay>>

\* The deleting __setattr__ reporting success without removing the key.
delattr_kept(attr_name) ==
    /\ UNCHANGED _dict
    /\ ret' = IF attr_name \in DOMAIN _dict THEN NoRet
              ELSE [rc |-> -1, err |-> "KeyError"]

delattr(attr_name) ==
    IF attr_name \in DOMAIN _dict
    THEN /\ _dict' = PyDict_DelItemString(_dict, attr_name)
         /\ ret' = NoRet
    ELSE /\ UNCHANGED _dict
         /\ ret' = [rc |-> -1, err |-> "KeyError"]

getattr(attr_name, elapsed) ==
    IF attr_name = "time" THEN <<"float", elapsed>>
    ELSE IF attr_name = "done" THEN PyInt_FromLong(DS_done)
    ELSE IF attr_name = "cont" THEN PyInt_FromLong(DS_cont)
    ELSE IF attr_name = "again" THEN PyInt_FromLong(DS_again)
    ELSE IF attr_name = "name" THEN PyString_FromString(_name)
    ELSE IF attr_name = "id" THEN PyInt_FromLong(_task_id)
    ELSE PyMapping_GetItemString(_dict, attr_name)

----------------------------------------------------------------------------
(* do_task *)

\* What invoking the work function can produce: NULL when it raises, else
\* the object it returns.  The build modelled is one where long has 64 bits
\* and int 32, so that a Python int can be 2^32 + lo.
IntLows == {-2, -1, 0, 1, 2, 3, 99}

WorkResults(lows) ==
    {<<NULL>>, <<"none">>, <<"str", "x">>}
        \cup {<<"int", hi, lo>> : hi \in {0, 1}, lo \in lows}

PyInt_Check(result) == result[1] = "int"

\* int retval = PyInt_AS_LONG(result): the long hi * 2^32 + lo converted to
\* a 32-bit int keeps its low 32 bits.
IntOfLong(result) == result[3]

\* Thread::call_python_func: an object that is not callable cannot be
\* invoked, which raises as well.
call_python_func(function, outcome) ==
    IF PyCallable_Check(function) THEN outcome ELSE <<NULL>>

do_task_result(result) ==
    IF result = <<NULL>>
    THEN [rc |-> DS_abort, err |-> NoError, logged |-> <<"Exception occurred">>]
    ELSE IF result = <<"none">>
    THEN [rc |-> DS_done, err |-> NoError, logged |-> <<>>]
    ELSE IF PyInt_Check(result)
            /\ IntOfLong(result) \in {DS_done, DS_cont, DS_again}
    THEN [rc |-> IntOfLong(result), err |-> NoError, logged |-> <<>>]
    ELSE IF PyInt_Check(result) /\ IntOfLong(result) = -1
    THEN [rc |-> DS_done, err |-> NoError, logged |-> <<>>]
    ELSE [rc |-> DS_abort, err |-> "AssertionError", logged |-> <<>>]

----------------------------------------------------------------------------
----------------------------------------------------------------------------
(* The operations.  Each takes the set its arguments are drawn from. *)

Init ==
    /\ _state = S_inactive
    /\ _task_id \in 1..MaxTaskId
    /\ _name = "task"
    /\ _delay = NoDelay
    /\ _function \in Functions
    /\ _args = <<>>
    /\ _append_task = TRUE
    /\ _upon_death = Py_None
    /\ _owner = Py_None
    /\ _dict = EmptyDict
    /\ refs = [o \in RefObjects |->
                  IF o = Py_None THEN 2
                  ELSE IF o \in {_function, TupleObject, DictObject} THEN 1
                  ELSE 0]
    /\ op = <<"PythonTask">>
    /\ ret = NoRet
    /\ got = <<NULL>>
    /\ calls = <<>>
    /\ errlog = <<>>
    /\ callArgs = <<>>

SetFunction ==
    \E function \in Functions \cup {NotCallable} :
        /\ set_function(function)
        /\ op' = <<"set_function", function>>
        /\ calls' = <<>> /\ errlog' = <<>> /\ got' = <<NULL>> /\ callArgs' = <<>>
        /\ UNCHANGED <<_state, _task_id, _name, _delay, _args,
                       _append_task, _upon_death, _owner, _dict>>

SetUponDeath ==
    \E death_function \in DeathFunctions \cup {Py_None, NotCallable} :
        /\ set_upon_death(death_function)
        /\ op' = <<"set_upon_death", death_function>>
        /\ calls' = <<>> /\ errlog' = <<>> /\ got' = <<NULL>> /\ callArgs' = <<>>
        /\ UNCHANGED <<_state, _task_id, _name, _delay, _function, _args,
                       _append_task, _owner, _dict>>

SetArgs(inputs) ==
    \E args \in inputs, append_task \in BOOLEAN :
        /\ set_args(args, append_task)
        /\ op' = <<"set_args", args, append_task>>
        /\ calls' = <<>> /\ errlog' = <<>> /\ got' = <<NULL>> /\ callArgs' = <<>>
        /\ UNCHANGED <<_state, _task_id, _name, _delay, _function,
                       _upon_death, _owner, _dict>>

SetOwner ==
    \E owner \in Owners \cup {Py_None} :
        /\ set_owner(owner)
        /\ op' = <<"set_owner", owner>>
        /\ got' = <<NULL>> /\ callArgs' = <<>>
        /\ UNCHANGED <<_state, _task_id, _name, _delay, _function, _args,
                       _append_task, _upon_death, _dict>>

\* The scheduler adds the task to its active list.
Activate ==
    /\ _state = S_inactive
    /\ _state' = S_active
    /\ LET born == upon_birth(_owner)
       IN  /\ calls' = born.called
           /\ errlog' = born.logged
           /\ ret' = [rc |-> 0, err |-> PyErr_Occurred(born.raised)]
    /\ op' = <<"activate">>
    /\ got' = <<NULL>> /\ callArgs' = <<>>
    /\ UNCHANGED <<_task_id, _name, _delay, _function, _args,
                   _append_task, _upon_death, _owner, _dict, refs>>

\* The scheduler removes the task from its active list.
Deactivate ==
    \E clean_exit \in BOOLEAN :
        /\ _state = S_active
        /\ _state' = S_inactive
        /\ LET died == upon_death(_owner, _upon_death, clean_exit)
           IN  /\ calls' = died.called
               /\ errlog' = died.logged
               /\ ret' = [rc |-> 0, err |-> PyErr_Occurred(died.raised)]
        /\ op' = <<"deactivate", clean_exit>>
        /\ got' = <<NULL>> /\ callArgs' = <<>>
        /\ UNCHANGED <<_task_id, _name, _delay, _function, _args,
                       _append_task, _upon_death, _owner, _dict, refs>>

\* do_task retiring the task itself when the work function is finished
\* or has failed.
DoTask_retiring(lows) ==
    \E outcome \in WorkResults(lows) :
        /\ _state = S_active
        /\ LET args == get_args(_args, _append_task)
               result == call_python_func(_function, outcome)
               status == do_task_result(result)
               over == status.rc \in {DS_done, DS_abort}
               died == IF over
                       THEN upon_death(_owner, _upon_death, status.rc = DS_done)
                       ELSE Nothing
           IN  /\ callArgs' = args
               /\ ret' = [rc |-> status.rc, err |-> status.err]
               /\ errlog' = status.logged
               /\ op' = <<"do_task", result>>
               /\ _state' = IF over THEN S_inactive ELSE _state
               /\ calls' = PyObject_CallObject(_function).called \o died.called
        /\ got' = <<NULL>>
        /\ UNCHANGED <<_task_id, _name, _delay, _function, _args,
                       _append_task, _upon_death, _owner, _dict, refs>>

\* The scheduler runs the task.
DoTask(lows) ==
    \E outcome \in WorkResults(lows) :
        /\ _state = S_active
        /\ LET args == get_args(_args, _append_task)
               result == call_python_func(_function, outcome)
               status == do_task_result(result)
           IN  /\ callArgs' = args
               /\ ret' = [rc |-> status.rc, err |-> status.err]
               /\ errlog' = status.logged
               /\ op' = <<"do_task", result>>
        /\ calls' = PyObject_CallObject(_function).called /\ got' = <<NULL>>
        /\ UNCHANGED <<_state, _task_id, _name, _delay, _function, _args,
                       _append_task, _upon_death, _owner, _dict, refs>>

SetAttr(names, values) ==
    \E attr_name \in names, v \in values :
        /\ setattr(attr_name, v)
        /\ op' = <<"__setattr__", attr_name, v>>
        /\ calls' = <<>> /\ errlog' = <<>> /\ got' = <<NULL>> /\ callArgs' = <<>>
        /\ UNCHANGED <<_state, _task_id, _function, _args,
                       _append_task, _upon_death, _owner, refs>>

DelAttr(names) ==
    \E attr_name \in names :
        /\ delattr(attr_name)
        /\ op' = <<"__delattr__", attr_name>>
        /\ calls' = <<>> /\ errlog' = <<>> /\ got' = <<NULL>> /\ callArgs' = <<>>
        /\ UNCHANGED <<_state, _task_id, _name, _delay, _function, _args,
                       _append_task, _upon_death, _owner, refs>>

\* AsyncTask::get_elapsed_time is the scheduler clock's reading.
GetAttr(names) ==
    \E attr_name \in names, elapsed \in {0, 1} :
        /\ got' = getattr(attr_name, elapsed)
        /\ op' = <<"__getattr__", attr_name>>
        /\ ret' = [rc |-> 0,
                   err |-> IF got' = <<NULL>> THEN "KeyError" ELSE NoError]
        /\ calls' = <<>> /\ errlog' = <<>> /\ callArgs' = <<>>
        /\ UNCHANGED <<_state, _task_id, _name, _delay, _function, _args,
                       _append_task, _upon_death, _owner, _dict, refs>>

----------------------------------------------------------------------------
(* The task's setters and its lifecycle: every operation but the attribute *)
(* accesses, the work function returning one of a few values.              *)

Next ==
    \/ SetFunction
    \/ SetUponDeath
    \/ SetArgs({<<"none">>, <<"seq", <<"7">> >>})
    \/ SetOwner
    \/ Activate
    \/ Deactivate
    \/ DoTask({1, 99})

Spec == Init /\ [][Next]_vars

(* The runs of a task without owner: every argument sequence and every     *)
(* outcome of the work function.                                           *)

NextRun ==
    \/ SetFunction
    \/ SetUponDeath
    \/ SetArgs(ArgInputs)
    \/ Activate
    \/ Deactivate
    \/ DoTask(IntLows)

SpecRun == Init /\ [][NextRun]_vars

(* The attribute accesses, on a task built around the function f *)

InitAttr == Init /\ _function = "f"

NextAttr ==
    \/ SetAttr(WriteNames, AttrValues)
    \/ DelAttr(AttrNames)
    \/ GetAttr(AttrNames)

SpecAttr == InitAttr /\ [][NextAttr]_vars

(* Every operation, each on a few arguments *)

NextAll ==
    \/ SetFunction
    \/ SetUponDeath
    \/ SetArgs({<<"none">>, <<"seq", <<"7">> >>})
    \/ SetOwner
    \/ Activate
    \/ Deactivate
    \/ DoTask({1, 99})
    \/ SetAttr({"id", "name", "foo"}, {<<"int", 0, 5>>, <<"str", "s">>})
    \/ DelAttr({"id", "foo"})
    \/ GetAttr({"id", "foo"})

SpecAll == Init /\ [][NextAll]_vars

----------------------------------------------------------------------------
(* The task's setters and lifecycle up to its destruction.  The task is    *)
(* destroyed when the last reference to it goes, which is not while the    *)
(* scheduler holds it; after ~PythonTask nothing is called on it.          *)

Destructor ==
    /\ op[1] # "~PythonTask"
    /\ _state = S_inactive
    /\ refs' = Py_DECREF(Py_DECREF(Py_DECREF(refs, _function), TupleObject),
                         DictObject)
    /\ op' = <<"~PythonTask">>
    /\ ret' = NoRet /\ got' = <<NULL>>
    /\ calls' = <<>> /\ errlog' = <<>> /\ callArgs' = <<>>
    /\ UNCHANGED <<_state, _task_id, _name, _delay, _function, _args,
                   _append_task, _upon_death, _owner, _dict>>

NextRefs ==
    \/ op[1] # "~PythonTask" /\ SetFunction
    \/ op[1] # "~PythonTask" /\ SetUponDeath
    \/ op[1] # "~PythonTask" /\ SetArgs({<<"none">>, <<"seq", <<"7">> >>})
    \/ op[1] # "~PythonTask" /\ SetOwner
    \/ op[1] # "~PythonTask" /\ Activate
    \/ op[1] # "~PythonTask" /\ Deactivate
    \/ Destructor

SpecRefs == Init /\ [][NextRefs]_vars

----------------------------------------------------------------------------
(* Properties *)

Count(seq, x) == Cardinality({i \in DOMAIN seq : seq[i] = x})

\* The positions of x in seq.
Places(seq, x) == {i \in DOMAIN seq : seq[i] = x}

\* The owners that define both hook methods, as set_owner asks of an owner.
HookOwners == {o \in Owners : OwnerMethods \subseteq Attrs(o)}

AddTask(o) == BoundMethod(o, "_addTask")

ClearTask(o) == BoundMethod(o, "_clearTask")

\* The directive section 4.1 gives for an outcome of the work function.
Directive(result) ==
    IF result = <<NULL>> THEN DS_abort
    ELSE IF result = <<"none">> THEN DS_done
    ELSE IF result[1] = "int" /\ result[2] = 0 /\ result[3] \in {0, 1, 2}
    THEN result[3]
    ELSE IF result[1] = "int" /\ result[2] = 0 /\ result[3] = -1 THEN DS_done
    ELSE DS_abort

\* Whether section 4.1 has the outcome reported as a protocol violation.
Unrecognized(result) ==
    /\ result # <<NULL>>
    /\ result # <<"none">>
    /\ ~(result[1] = "int" /\ result[2] = 0 /\ result[3] \in {-1, 0, 1, 2})

(* C1: do_task maps every outcome of the work function to its directive:   *)
(* None, 0 and -1 to Done, 1 to Continue, 2 to Again, a raise to Abort and  *)
(* every other value to Abort with an assertion raised.                    *)
RunMapsOutcome ==
    op[1] = "do_task" =>
        /\ ret.rc = Directive(op[2])
        /\ Unrecognized(op[2]) => ret.err = "AssertionError"

(* C2: set_owner(O) on an active task calls O._addTask once; deactivate     *)
(* with a clean exit then calls O._clearTask once and no _addTask.          *)
OwnerAddedOnceClearedOnce ==
    /\ (op[1] = "set_owner" /\ op[2] \in HookOwners /\ _state = S_active)
          => Count(calls, AddTask(op[2])) = 1
    /\ (op = <<"deactivate", TRUE>> /\ _owner \in HookOwners)
          => /\ Count(calls, ClearTask(_owner)) = 1
             /\ \A o \in Owners : Count(calls, AddTask(o)) = 0

OwnerAddedWhileActive ==
    /\ op = <<"set_owner", "O1">>
    /\ _state = S_active
    /\ calls = <<AddTask("O1")>>

(* C3: set_owner(O2) on an active task owned by O1 calls O1._clearTask      *)
(* before O2._addTask, and neither O1._addTask nor O2._clearTask.           *)
Rebinding ==
    /\ op'[1] = "set_owner"
    /\ _state = S_active
    /\ _owner \in HookOwners
    /\ _owner' \in HookOwners
    /\ _owner' # _owner

RebindClearsOldThenAddsNew ==
    [][Rebinding =>
          /\ Count(calls', ClearTask(_owner)) = 1
          /\ Count(calls', AddTask(_owner')) = 1
          /\ \A i \in Places(calls', ClearTask(_owner)),
                j \in Places(calls', AddTask(_owner')) : i < j
          /\ Count(calls', AddTask(_owner)) = 0
          /\ Count(calls', ClearTask(_owner')) = 0]_vars

Rebound ==
    /\ op = <<"set_owner", "O2">>
    /\ _state = S_active
    /\ calls = <<ClearTask("O1"), AddTask("O2")>>

(* C4: the completion callback is called only by a deactivation, and once  *)
(* by it: no operation that leaves the task active calls it.                *)
DeathFunctionCalls == {i \in DOMAIN calls : calls[i] \in DeathFunctions}

DeathHookOnlyOnDeactivate ==
    DeathFunctionCalls # {} =>
        /\ op[1] = "deactivate"
        /\ Cardinality(DeathFunctionCalls) = 1

(* C5: a deactivation of a task with a completion callback and an owner     *)
(* calls the completion callback before the owner's _clearTask.             *)
DeathHookBeforeCleared ==
    (op[1] = "deactivate" /\ _upon_death \in DeathFunctions
                          /\ _owner \in HookOwners)
        => \A i \in Places(calls, _upon_death),
              j \in Places(calls, ClearTask(_owner)) : i < j

(* C6: do_task passes the stored arguments, followed by the task when       *)
(* append_task is set, and leaves the stored arguments as set_args made     *)
(* them: the elements of the sequence it was given.                        *)
RunPassesArgsAndKeepsThem ==
    [][/\ op'[1] = "do_task" =>
              /\ _args' = _args
              /\ _append_task' = _append_task
              /\ callArgs' = IF _append_task THEN Append(_args, Self) ELSE _args
       /\ (op'[1] = "set_args" /\ op'[2][1] = "seq") => _args' = op'[2][2]
       /\ (op'[1] = "set_args" /\ op'[2] = <<"none">>) => _args' = <<>>]_vars

RunWithSelfAppended ==
    /\ op[1] = "do_task"
    /\ _args = <<"7", "8">>
    /\ callArgs = <<"7", "8", Self>>

(* C7: no operation changes the task's identifier, and a write of the       *)
(* attribute id fails and leaves the attribute dictionary as it was.        *)
IdNeverChanges ==
    [][/\ _task_id' = _task_id
       /\ (op'[1] = "__setattr__" /\ op'[2] = "id") =>
              /\ ret'.rc # 0
              /\ ret'.err = "AssertionError"
              /\ _dict' = _dict]_vars

IdWriteRefused ==
    /\ op[1] = "__setattr__"
    /\ op[2] = "id"
    /\ ret.rc # 0
    /\ "foo" \in DOMAIN _dict
    /\ _state = S_active

(* C8: a name that is not reserved reads as the value last written to it,  *)
(* fails to read once deleted or while never written, fails to delete      *)
(* while absent, and is untouched by accesses to other names.              *)
Read(attr_name) == getattr(attr_name, 0)

AttributeRoundTrip ==
    [][\A k \in AttrNames \ ReservedNames :
          /\ (op'[1] = "__setattr__" /\ op'[2] = k) => Read(k)' = op'[3]
          /\ (op'[1] = "__delattr__" /\ op'[2] = k) =>
                 /\ Read(k)' = <<NULL>>
                 /\ (Read(k) = <<NULL>>) => ret'.err = "KeyError"
          /\ (op'[1] = "__getattr__" /\ op'[2] = k) =>
                 /\ got' = Read(k)
                 /\ (Read(k) = <<NULL>>) => ret'.err = "KeyError"
          /\ ~(op'[1] \in {"__setattr__", "__delattr__"} /\ op'[2] = k)
                 => Read(k)' = Read(k)
          /\ (op'[1] = "__setattr__" /\ op'[2] = k) =>
                 \A n \in AttrNames \ {k} : Read(n)' = Read(n)
          /\ op = <<"PythonTask">> => Read(k) = <<NULL>>]_vars

AttributeOverwritten ==
    /\ op = <<"__getattr__", "foo">>
    /\ got = <<"str", "s">>
    /\ "bar" \in DOMAIN _dict
    /\ _dict["bar"] # got

(* C9: the attribute dictionary never holds a reserved name.                *)
NoReservedNameInDict == DOMAIN _dict \cap ReservedNames = {}

(* C10: a setter that raises leaves the field it sets as it was.            *)
FailedSetterChangesNothing ==
    [][/\ (op'[1] = "set_function" /\ ret'.err # NoError)
              => _function' = _function
       /\ (op'[1] = "set_upon_death" /\ ret'.err # NoError)
              => _upon_death' = _upon_death]_vars

(* C11: after set_args(args, append_task) the template is the empty tuple  *)
(* when args is None, the elements of args in order when args is a         *)
(* sequence, and the empty tuple with an error raised when args is         *)
(* neither, whatever the template was before; the template is a tuple in   *)
(* every state, never NULL.                                                *)
SetArgsAlwaysLeavesTuple ==
    /\ _args \in SeqsUpTo(ArgItems, MaxArgs)
    /\ op[1] = "set_args" =>
          /\ _append_task = op[3]
          /\ op[2] = <<"none">> => _args = <<>> /\ ret.err = NoError
          /\ op[2][1] = "seq" => _args = op[2][2] /\ ret.err = NoError
          /\ op[2][1] = "obj" => _args = <<>> /\ ret.err = "AssertionError"

SetArgsRefusedNonSequence ==
    /\ op[1] = "set_args" /\ op[2] = <<"obj", NotCallable>>
    /\ ret.err = "AssertionError"
    /\ _args = <<>>

(* C12: reading a reserved name never fails and gives the typed value:     *)
(* done, cont and again read 0, 1 and 2, id the task's id, name its name,  *)
(* time a float, and delay or delayTime the delay last written, whatever   *)
(* was assigned before.                                                    *)
ReservedReadNeverFails ==
    (op[1] = "__getattr__" /\ op[2] \in ReservedNames) =>
        /\ got # <<NULL>>
        /\ ret.err = NoError
        /\ op[2] = "done" => got = PyInt_FromLong(DS_done)
        /\ op[2] = "cont" => got = PyInt_FromLong(DS_cont)
        /\ op[2] = "again" => got = PyInt_FromLong(DS_again)
        /\ op[2] = "id" => got = PyInt_FromLong(_task_id)
        /\ op[2] = "name" => got = PyString_FromString(_name)
        /\ op[2] = "time" => got[1] = "float"
        /\ op[2] \in {"delay", "delayTime"} => got = _delay

(* C13: assigning v to delay or delayTime sets the task's delay to v when  *)
(* v is a non-negative number; otherwise the assignment fails and the      *)
(* delay keeps its value; so the delay is unset or non-negative after      *)
(* every operation.                                                        *)
DelayWriteValidated ==
    [][/\ (op'[1] = "__setattr__" /\ op'[2] \in {"delay", "delayTime"}) =>
             IF op'[3][1] = "int" /\ op'[3][3] >= 0
             THEN _delay' = <<"float", op'[3][3]>> /\ ret'.err = NoError
             ELSE _delay' = _delay /\ ret'.err # NoError
       /\ (_delay' = NoDelay \/ _delay'[2] >= 0)]_vars

(* C14: deleting a reserved name fails, whatever was assigned before, and  *)
(* leaves the task's name, delay, id and dict as they were.                *)
ReservedDeleteAlwaysFails ==
    [][(op'[1] = "__delattr__" /\ op'[2] \in ReservedNames) =>
          /\ ret'.err = "KeyError"
          /\ UNCHANGED <<_name, _delay, _task_id, _dict>>]_vars

\* The owner o has no method of this name.
Lacking(o, method_name) == o \in Owners /\ method_name \notin Attrs(o)

(* C15: an owner without _addTask or _clearTask is not fatal: activate and *)
(* set_owner still complete and the owner is installed, deactivate still   *)
(* calls the completion callback and ends Inactive, and the failed lookup  *)
(* leaves no error pending when the operation returns.                     *)
MissingOwnerMethodNotFatal ==
    /\ (op[1] = "activate" /\ Lacking(_owner, "_addTask")) =>
          _state = S_active /\ ret.err # "AttributeError"
    /\ (op[1] = "set_owner" /\ Lacking(op[2], "_addTask")) =>
          _owner = op[2] /\ ret.err # "AttributeError"
    /\ (op[1] = "deactivate" /\ Lacking(_owner, "_clearTask")) =>
          /\ _state = S_inactive
          /\ PyCallable_Check(_upon_death) => calls = <<_upon_death>>
          /\ ret.err # "AttributeError"

(* C16: an error raised by the completion callback or by the owner's       *)
(* _addTask or _clearTask is swallowed: no error is pending when the       *)
(* operation returns, the callables after the one that raised are still    *)
(* called, and the transition completes.                                   *)
HookErrorSwallowed ==
    (op[1] \in {"activate", "deactivate", "set_owner"}
        /\ \E i \in DOMAIN calls : calls[i] \in Raising) =>
        /\ ret.err = NoError
        /\ op[1] = "activate" => _state = S_active
        /\ op[1] = "deactivate" =>
              /\ _state = S_inactive
              /\ PyCallable_Check(_upon_death) =>
                    calls[Len(calls)] = _upon_death
        /\ op[1] = "set_owner" =>
              /\ _owner = op[2]
              /\ (op[2] \in HookOwners /\ _state = S_active) =>
                    calls[Len(calls)] = AddTask(op[2])

(* C17: do_task changes nothing of the task: its state, owner, template,   *)
(* append flag, work function, completion callback, dict, name, delay, id  *)
(* and references are as before, whatever the work function returned, and  *)
(* the only callable invoked is the work function, never _addTask,         *)
(* _clearTask or the completion callback; the state changes in activate    *)
(* and deactivate only.                                                    *)
RunChangesNothing ==
    [][/\ op'[1] = "do_task" =>
             /\ UNCHANGED <<_state, _owner, _args, _append_task, _function,
                            _upon_death, _dict, _task_id, _name, _delay, refs>>
             /\ \A i \in DOMAIN calls' : calls'[i] = _function
       /\ _state' # _state => op'[1] \in {"activate", "deactivate"}]_vars

RunFinishedStillActive ==
    /\ op[1] = "do_task" /\ ret.rc = DS_done
    /\ _state = S_active
    /\ _owner \in HookOwners
    /\ _upon_death \in DeathFunctions
    /\ _dict # EmptyDict
    /\ calls = <<_function>>

\* The references the task's fields make to the object o.
Held(o) ==
    (IF _function = o THEN 1 ELSE 0) + (IF _upon_death = o THEN 1 ELSE 0)
        + (IF _owner = o THEN 1 ELSE 0)
        + (IF o \in {TupleObject, DictObject} THEN 1 ELSE 0)

(* C18: while the task lives it holds exactly one reference for each of    *)
(* its work function, template, completion callback, owner and dict, each  *)
(* setter having released the value it replaced; once destroyed it holds   *)
(* no reference to any object.                                             *)
ReferencesBalanced ==
    \A o \in RefObjects :
        refs[o] = IF op[1] = "~PythonTask" THEN 0 ELSE Held(o)

\* The _addTask calls owner o is to have received beyond its _clearTask
\* calls: one while it is the owner of the Active task.
Outstanding(state, owner, o) ==
    IF state = S_active /\ owner = o THEN 1 ELSE 0

(* C19: for every owner, the _addTask calls it received less the           *)
(* _clearTask calls it received is 1 while the task is Active and it is    *)
(* the owner, and 0 otherwise.  Both are 0 at construction, so this is:    *)
(* every operation's calls change the difference exactly as the state and  *)
(* owner change; and no _clearTask reaches an owner whose difference is 0  *)
(* at that point.  Owners are those defining both methods.                 *)
NotificationsBalance ==
    [][\A o \in HookOwners :
          /\ Count(calls', AddTask(o)) - Count(calls', ClearTask(o))
                = Outstanding(_state', _owner', o)
                    - Outstanding(_state, _owner, o)
          /\ \A i \in Places(calls', ClearTask(o)) :
                LET before == SubSeq(calls', 1, i - 1)
                IN  Outstanding(_state, _owner, o)
                        + Count(before, AddTask(o))
                        - Count(before, ClearTask(o)) >= 1]_vars

OwnerDroppedWhileActive ==
    /\ op = <<"set_owner", Py_None>>
    /\ _state = S_active
    /\ Len(calls) >= 1
    /\ \E o \in HookOwners : calls[1] = ClearTask(o)

(* C20: set_owner on an Inactive task only replaces the owner: nothing is  *)
(* called (no _clearTask, no _addTask, no completion callback), the task   *)
(* stays Inactive and its other fields are as before; set_owner(None) on   *)
(* an Active task calls no owner's _addTask.                               *)
SetOwnerInactiveOnlyStores ==
    [][op'[1] = "set_owner" =>
          /\ _state = S_inactive =>
                /\ calls' = <<>>
                /\ _owner' = op'[2]
                /\ _state' = S_inactive
                /\ UNCHANGED <<_function, _args, _append_task, _upon_death,
                               _dict, _task_id, _name, _delay>>
          /\ (_state = S_active /\ op'[2] = Py_None) =>
                /\ _owner' = Py_None
                /\ \A o \in Owners : Count(calls', AddTask(o)) = 0]_vars

OwnerStoredWhileInactive ==
    /\ op[1] = "set_owner" /\ op[2] \in HookOwners
    /\ _state = S_inactive
    /\ _owner = op[2]
    /\ _upon_death \in DeathFunctions
    /\ calls = <<>>

====
